---- MODULE Spec2Model ----
(***************************************************************************)
(* The content workflow of contentflow-ai: a LangGraph StateGraph with     *)
(* three nodes (trend_research, content_strategy, brief_generation) that   *)
(* thread one ContentWorkflowState through three pydantic_ai agents.       *)
(* Python values are records carrying a "class" field; None is a record of *)
(* class NoneType, a str stored in an Optional slot is wrapped by PyStr.   *)
(***************************************************************************)
EXTENDS Integers, Sequences, FiniteSets, TLC

VARIABLES state, pc, running, invoked, result, failures, executing, calls,
          retries, tool_log, db, workflow_run, response,
          arg, ret, run2, alone

vars == <<state, pc, running, invoked, result, failures, executing, calls,
          retries, tool_log, db, workflow_run, response,
          arg, ret, run2, alone>>

\* the variables of one run of the graph
graphVars == <<state, pc, running, invoked, result, failures, executing, calls>>

\* the second request and the replay of each request on its own
concVars == <<run2, alone>>

\* the variables local to an agent run
agentVars == <<retries, tool_log>>

\* the variables of the route around the graph
routeVars == <<db, workflow_run, response>>

\* argument and result of a function applied on its own
fnVars == <<arg, ret>>

(***************************************************************************)
(* Bounds of the model                                                     *)
(***************************************************************************)
\* number of company profiles a run may be started for
NumProfiles == 2
\* number of distinct transport-level failures an external call may raise
NumTransportErrors == 2

(***************************************************************************)
(* Python values                                                           *)
(***************************************************************************)
None == [class |-> "NoneType"]

PyStr(s) == [class |-> "str", value |-> s]

\* f"{type(x)}" for the builtin classes the agents can hand back
TypeRepr(x) == "<class '" \o x.class \o "'>"

isinstance(x, cls) == x.class = cls

\* truthiness of an Optional model / Optional str / list slot
Truthy(x) ==
    IF x = None THEN FALSE
    ELSE IF x.class = "str" THEN x.value # ""
    ELSE TRUE

RECURSIVE Repeat(_, _)
Repeat(c, n) ==
    IF n = 0 THEN ""
    ELSE LET half == Repeat(c, n \div 2)
         IN  half \o half \o (IF n % 2 = 1 THEN c ELSE "")

(***************************************************************************)
(* Exceptions.  Every exception the stages can meet derives from           *)
(* Exception; the handlers are "except Exception as e".                    *)
(***************************************************************************)
ExceptionSubclasses ==
    {"Exception", "ValueError", "ValidationError", "UserError",
     "UnexpectedModelBehavior", "ModelHTTPError", "AttributeError", "TypeError",
     "ConnectionError", "SQLAlchemyError"}

Exc(cls, msg) == [class |-> cls, msg |-> msg]

\* str(e)
str(e) == e.msg

TransportErrors ==
    {Exc("ModelHTTPError", "status_code: 50" \o ToString(i)) : i \in 1..NumTransportErrors}

(***************************************************************************)
(* Schema values (schemas/agent_schema.py), reduced to the fields the      *)
(* workflow and its callers read.                                          *)
(***************************************************************************)
UUID(i) == [class |-> "UUID", hex |-> "0000000" \o ToString(i)]

\* str(uuid)
uuid_str(u) == u.hex

TargetAudience(name, pain_points) ==
    [class |-> "TargetAudience", name |-> name, pain_points |-> pain_points]

CompanyProfile(i) ==
    [class |-> "CompanyProfile",
     company_id |-> UUID(i),
     company_name |-> "Company" \o ToString(i),
     industry |-> "AI",
     target_audience |-> TargetAudience("Developers", <<"scaling AI apps">>),
     business_objectives |-> <<"thought_leadership">>,
     brand_voice |-> "professional",
     posting_frequency_target |-> i + 2]

Profiles == {CompanyProfile(i) : i \in 1..NumProfiles}

TrendingTopic(topic, business, audience, opportunity, momentum, score) ==
    [class |-> "TrendingTopic",
     topic |-> topic,
     trend_score |-> score,
     business_relevance_score |-> business,
     audience_interest_score |-> audience,
     content_opportunity_score |-> opportunity,
     trend_momentum_score |-> momentum]

TrendResearchOutput(topics, found, qualifying, keywords) ==
    [class |-> "TrendResearchOutput",
     trending_topics |-> topics,
     total_topics_found |-> found,
     total_topics_qualifying |-> qualifying,
     top_keywords |-> keywords]

ContentMix(educational, insights, product, community) ==
    [class |-> "ContentMix",
     educational_percentage |-> educational,
     industry_insights_percentage |-> insights,
     company_product_percentage |-> product,
     engagement_community_percentage |-> community]

RecommendedContentPiece(topic, impact, engagement, advantage, efficiency, priority) ==
    [class |-> "RecommendedContentPiece",
     topic |-> topic,
     priority_score |-> priority,
     business_impact_score |-> impact,
     audience_engagement_score |-> engagement,
     competitive_advantage_score |-> advantage,
     resource_efficiency_score |-> efficiency]

ContentStrategyOutput(mix, pieces, focus) ==
    [class |-> "ContentStrategyOutput",
     content_strategy |-> [class |-> "ContentStrategy", content_mix |-> mix],
     recommended_content_pieces |-> pieces,
     weekly_focus |-> focus]

SEOOptimization(keyword, meta_description) ==
    [class |-> "SEOOptimization",
     primary_keyword |-> keyword,
     meta_description |-> meta_description]

ContentBrief(brief_id, title, seo) ==
    [class |-> "ContentBrief",
     brief_id |-> brief_id,
     title |-> title,
     seo_optimization |-> seo]

BriefGenerationOutput(briefs, total, alignment) ==
    [class |-> "BriefGenerationOutput",
     content_briefs |-> briefs,
     total_briefs_generated |-> total,
     strategy_alignment_score |-> alignment]

\* a dict as the generative call may hand it back instead of a model
Dict(items) == [class |-> "dict", items |-> items]

(***************************************************************************)
(* Outcomes of calls: a call returns a value or raises an exception.       *)
(***************************************************************************)
Return(v) == [kind |-> "return", output |-> v]

Raise(e) == [kind |-> "raise", exc |-> e]

\* what a try block leaves behind: the exception in flight (None when the
\* block ran to its end) and the state as mutated so far
Completed(st) == [exc |-> None, state |-> st]

Raised(st, e) == [exc |-> e, state |-> st]

(***************************************************************************)
(* Schema validation when a BriefGenerationOutput is built from a dict     *)
(***************************************************************************)
MetaDescriptionMaxLength == 160

ValidSEOOptimization(d) ==
    /\ d.class = "dict"
    /\ {"primary_keyword", "meta_description"} \subseteq DOMAIN d.items
    /\ Len(d.items.meta_description) <= MetaDescriptionMaxLength

ValidContentBrief(d) ==
    /\ d.class = "dict"
    /\ {"brief_id", "title", "seo_optimization"} \subseteq DOMAIN d.items
    /\ ValidSEOOptimization(d.items.seo_optimization)

ValidBriefGenerationOutput(items) ==
    /\ {"content_briefs", "total_briefs_generated", "strategy_alignment_score"}
           \subseteq DOMAIN items
    /\ \A i \in DOMAIN items.content_briefs : ValidContentBrief(items.content_briefs[i])
    /\ items.total_briefs_generated >= 0
    /\ items.strategy_alignment_score >= 0
    /\ items.strategy_alignment_score <= 100

ParseContentBrief(d) ==
    ContentBrief(d.items.brief_id, d.items.title,
                 SEOOptimization(d.items.seo_optimization.items.primary_keyword,
                                 d.items.seo_optimization.items.meta_description))

\* building BriefGenerationOutput from the dict: the model, or a ValidationError
ParseBriefGenerationOutput(items) ==
    IF ValidBriefGenerationOutput(items)
    THEN Return(BriefGenerationOutput(
                    [i \in DOMAIN items.content_briefs |->
                        ParseContentBrief(items.content_briefs[i])],
                    items.total_briefs_generated,
                    items.strategy_alignment_score))
    ELSE Raise(Exc("ValidationError", "validation error for BriefGenerationOutput"))

(***************************************************************************)
(* truncate_meta_descriptions                                              *)
(***************************************************************************)
MetaDescriptionLimit == 160

TruncatedPrefixLength == 157

\* the cut keeps the first 160 characters before the marker
truncate_brief_CutsAtLimit(brief) ==
    IF /\ "seo_optimization" \in DOMAIN brief
       /\ Truthy(brief.seo_optimization)
       /\ Len(brief.seo_optimization.meta_description) > MetaDescriptionLimit
    THEN [brief EXCEPT !.seo_optimization.meta_description =
                           SubSeq(@, 1, MetaDescriptionLimit) \o "..."]
    ELSE brief

truncate_brief(brief) ==
    IF /\ "seo_optimization" \in DOMAIN brief
       /\ Truthy(brief.seo_optimization)
       /\ Len(brief.seo_optimization.meta_description) > MetaDescriptionLimit
    THEN [brief EXCEPT !.seo_optimization.meta_description =
                           SubSeq(@, 1, TruncatedPrefixLength) \o "..."]
    ELSE brief

truncate_meta_descriptions(output) ==
    IF "content_briefs" \in DOMAIN output
    THEN [output EXCEPT !.content_briefs =
                            [i \in DOMAIN @ |-> truncate_brief(@[i])]]
    ELSE output

(***************************************************************************)
(* The instructions the nodes build for their generative call.  Each is    *)
(* the outcome of evaluating the f-string: the text, or the exception the  *)
(* evaluation raises.                                                      *)
(***************************************************************************)
RECURSIVE JoinFrom(_, _, _)
JoinFrom(seq, sep, i) ==
    IF i > Len(seq) THEN ""
    ELSE IF i = Len(seq) THEN seq[i]
    ELSE seq[i] \o sep \o JoinFrom(seq, sep, i + 1)

\* sep.join(seq)
Join(seq, sep) == JoinFrom(seq, sep, 1)

\* seq[:n]
Take(seq, n) == SubSeq(seq, 1, IF Len(seq) < n THEN Len(seq) ELSE n)

AttributeError(attr) ==
    Exc("AttributeError", "'NoneType' object has no attribute '" \o attr \o "'")

research_query(st) ==
    Return(st.profile.industry \o " trends for " \o st.profile.target_audience.name)

\* the trends are read without the "if trends" guard
strategy_input_NoGuard(st) ==
    IF st.trends = None THEN Raise(AttributeError("trending_topics"))
    ELSE Return("Company: " \o st.profile.company_name
                \o " Industry: " \o st.profile.industry
                \o " Business Objectives: " \o Join(st.profile.business_objectives, ", ")
                \o " Available Trends: "
                \o Join([i \in DOMAIN st.trends.trending_topics |->
                            st.trends.trending_topics[i].topic], ", ")
                \o " Create a weekly content strategy addressing audience pain points: "
                \o Join(st.profile.target_audience.pain_points, ", "))

strategy_input(st) ==
    LET trends == st.trends IN
    Return("Company: " \o st.profile.company_name
           \o " Industry: " \o st.profile.industry
           \o " Business Objectives: " \o Join(st.profile.business_objectives, ", ")
           \o " Available Trends: "
           \o (IF Truthy(trends) /\ trends.trending_topics # <<>>
               THEN Join([i \in DOMAIN trends.trending_topics |->
                             trends.trending_topics[i].topic], ", ")
               ELSE "No specific trends found")
           \o " Create a weekly content strategy addressing audience pain points: "
           \o Join(st.profile.target_audience.pain_points, ", "))

brief_input(st) ==
    LET strategy == st.strategy
        trends == st.trends
    IN
    Return("Company: " \o st.profile.company_name
           \o " Target Audience: " \o st.profile.target_audience.name
           \o " Brand Voice: " \o st.profile.brand_voice
           \o " Strategy Focus: "
           \o (IF Truthy(strategy) THEN strategy.weekly_focus
               ELSE "General content strategy")
           \o " Available Topics: "
           \o (IF Truthy(strategy) /\ strategy.recommended_content_pieces # <<>>
               THEN Join([i \in DOMAIN strategy.recommended_content_pieces |->
                             strategy.recommended_content_pieces[i].topic], ", ")
               ELSE "General content topics")
           \o " Trending Keywords: "
           \o (IF Truthy(trends) /\ trends.top_keywords # <<>>
               THEN Join(Take(trends.top_keywords, 5), ", ")
               ELSE "General industry keywords")
           \o " Generate " \o ToString(st.profile.posting_frequency_target)
           \o " detailed content briefs for this week.")

(***************************************************************************)
(* The three nodes (workflow/initial_graph.py).  ext carries the outcomes  *)
(* of the node's external calls: ext.construct for create_*_agent(profile) *)
(* and ext.run for "await agent.run(...)".  Each X_try is the body of the  *)
(* node's try block, each X_node the whole node with its handler.          *)
(***************************************************************************)
\* a handler narrowed to "except ValueError"
except_ValueErrorOnly(e) == e.class = "ValueError"

\* "except Exception as e" catches e
except_Exception(e) == e.class \in ExceptionSubclasses

\* an answer without topics is not stored, the label still advances
trend_research_try_SkipsEmpty(st, ext) ==
    IF ext.construct.kind = "raise" THEN Raised(st, ext.construct.exc)
    ELSE IF research_query(st).kind = "raise" THEN Raised(st, research_query(st).exc)
    ELSE IF ext.run.kind = "raise" THEN Raised(st, ext.run.exc)
    ELSE LET trends_data == ext.run.output IN
         IF ~isinstance(trends_data, "TrendResearchOutput")
         THEN Raised(st, Exc("ValueError",
                             "Expected TrendResearchOutput, got " \o TypeRepr(trends_data)))
         ELSE IF trends_data.trending_topics = <<>>
         THEN Completed([st EXCEPT !.current_step = "trend_research_done"])
         ELSE Completed([st EXCEPT !.trends = trends_data,
                                   !.current_step = "trend_research_done"])

\* the stage reports how many tool calls the agent made for the answer
trend_research_try_CountsToolCalls(st, ext) ==
    IF ext.construct.kind = "raise" THEN Raised(st, ext.construct.exc)
    ELSE IF research_query(st).kind = "raise" THEN Raised(st, research_query(st).exc)
    ELSE IF ext.run.kind = "raise" THEN Raised(st, ext.run.exc)
    ELSE LET trends_data == ext.run.output IN
         IF ~isinstance(trends_data, "TrendResearchOutput")
         THEN Raised(st, Exc("ValueError",
                             "Expected TrendResearchOutput, got " \o TypeRepr(trends_data)))
         ELSE Completed([st EXCEPT !.trends = [trends_data EXCEPT
                                                  !.total_topics_found = Len(tool_log)],
                                   !.current_step = "trend_research_done"])

\* the stage writes the researched industry keywords back into the profile
trend_research_try_EditsProfile(st, ext) ==
    IF ext.construct.kind = "raise" THEN Raised(st, ext.construct.exc)
    ELSE IF research_query(st).kind = "raise" THEN Raised(st, research_query(st).exc)
    ELSE IF ext.run.kind = "raise" THEN Raised(st, ext.run.exc)
    ELSE LET trends_data == ext.run.output IN
         IF ~isinstance(trends_data, "TrendResearchOutput")
         THEN Raised(st, Exc("ValueError",
                             "Expected TrendResearchOutput, got " \o TypeRepr(trends_data)))
         ELSE Completed([st EXCEPT !.trends = trends_data,
                                   !.profile.industry = Join(trends_data.top_keywords, ", "),
                                   !.current_step = "trend_research_done"])

trend_research_try(st, ext) ==
    IF ext.construct.kind = "raise" THEN Raised(st, ext.construct.exc)
    ELSE IF research_query(st).kind = "raise" THEN Raised(st, research_query(st).exc)
    ELSE IF ext.run.kind = "raise" THEN Raised(st, ext.run.exc)
    ELSE LET trends_data == ext.run.output IN
         IF ~isinstance(trends_data, "TrendResearchOutput")
         THEN Raised(st, Exc("ValueError",
                             "Expected TrendResearchOutput, got " \o TypeRepr(trends_data)))
         ELSE Completed([st EXCEPT !.trends = trends_data,
                                   !.current_step = "trend_research_done"])

\* the handler labels the failure with another stage's name
trend_research_node_WrongLabel(st, ext) ==
    LET r == trend_research_try(st, ext) IN
    IF r.exc = None THEN Return(r.state)
    ELSE IF except_Exception(r.exc)
         THEN Return([r.state EXCEPT
                         !.error = PyStr("Content Strategy Failed: " \o str(r.exc))])
         ELSE Raise(r.exc)

trend_research_node(st, ext) ==
    LET r == trend_research_try(st, ext) IN
    IF r.exc = None THEN Return(r.state)
    ELSE IF except_Exception(r.exc)
         THEN Return([r.state EXCEPT
                         !.error = PyStr("Trend Research Failed: " \o str(r.exc))])
         ELSE Raise(r.exc)

\* the field constraints of ContentMix: each percentage within 0..100
ValidContentMix(mix) ==
    /\ mix.educational_percentage \in 0..100
    /\ mix.industry_insights_percentage \in 0..100
    /\ mix.company_product_percentage \in 0..100
    /\ mix.engagement_community_percentage \in 0..100

\* ContentMix.validate_total, a plain method that no validator calls
validate_total(mix) ==
    mix.educational_percentage + mix.industry_insights_percentage
        + mix.company_product_percentage + mix.engagement_community_percentage = 100

\* the stage calls validate_total and refuses a mix that fails it
content_strategy_try_ValidatesTotal(st, ext) ==
    IF ext.construct.kind = "raise" THEN Raised(st, ext.construct.exc)
    ELSE IF strategy_input(st).kind = "raise" THEN Raised(st, strategy_input(st).exc)
    ELSE IF ext.run.kind = "raise" THEN Raised(st, ext.run.exc)
    ELSE LET strategy_data == ext.run.output IN
         IF ~isinstance(strategy_data, "ContentStrategyOutput")
         THEN Raised(st, Exc("ValueError",
                             "Expected ContentStrategyOutput, got " \o TypeRepr(strategy_data)))
         ELSE IF ~validate_total(strategy_data.content_strategy.content_mix)
         THEN Raised(st, Exc("ValueError", "Content mix does not total 100"))
         ELSE Completed([st EXCEPT !.strategy = strategy_data,
                                   !.current_step = "content_strategy_done"])

content_strategy_try(st, ext) ==
    IF ext.construct.kind = "raise" THEN Raised(st, ext.construct.exc)
    ELSE IF strategy_input(st).kind = "raise" THEN Raised(st, strategy_input(st).exc)
    ELSE IF ext.run.kind = "raise" THEN Raised(st, ext.run.exc)
    ELSE LET strategy_data == ext.run.output IN
         IF ~isinstance(strategy_data, "ContentStrategyOutput")
         THEN Raised(st, Exc("ValueError",
                             "Expected ContentStrategyOutput, got " \o TypeRepr(strategy_data)))
         ELSE Completed([st EXCEPT !.strategy = strategy_data,
                                   !.current_step = "content_strategy_done"])

\* a successful stage clears the error slot
content_strategy_node_ClearsError(st, ext) ==
    LET r == content_strategy_try(st, ext) IN
    IF r.exc = None THEN Return([r.state EXCEPT !.error = None])
    ELSE IF except_Exception(r.exc)
         THEN Return([r.state EXCEPT
                         !.error = PyStr("Content Strategy Failed: " \o str(r.exc))])
         ELSE Raise(r.exc)

\* the handler resets the step label
content_strategy_node_ResetsStep(st, ext) ==
    LET r == content_strategy_try(st, ext) IN
    IF r.exc = None THEN Return(r.state)
    ELSE IF except_Exception(r.exc)
         THEN Return([r.state EXCEPT
                         !.error = PyStr("Content Strategy Failed: " \o str(r.exc)),
                         !.current_step = "start"])
         ELSE Raise(r.exc)

\* the handler drops the upstream trends
content_strategy_node_DropsTrends(st, ext) ==
    LET r == content_strategy_try(st, ext) IN
    IF r.exc = None THEN Return(r.state)
    ELSE IF except_Exception(r.exc)
         THEN Return([r.state EXCEPT
                         !.error = PyStr("Content Strategy Failed: " \o str(r.exc)),
                         !.trends = None])
         ELSE Raise(r.exc)

content_strategy_node(st, ext) ==
    LET r == content_strategy_try(st, ext) IN
    IF r.exc = None THEN Return(r.state)
    ELSE IF except_Exception(r.exc)
         THEN Return([r.state EXCEPT
                         !.error = PyStr("Content Strategy Failed: " \o str(r.exc))])
         ELSE Raise(r.exc)

\* lines 181-185: a dict is coerced into the model, a failure of the
\* coercion is re-raised as ValueError
coerce_briefs_data(briefs_data) ==
    IF isinstance(briefs_data, "dict")
    THEN LET parsed == ParseBriefGenerationOutput(briefs_data.items) IN
         IF parsed.kind = "raise"
         THEN Raise(Exc("ValueError",
                        "Failed to parse briefs_data dict: " \o str(parsed.exc)))
         ELSE parsed
    ELSE Return(briefs_data)

\* the step label is advanced only while no error is recorded
brief_generation_try_FreezesStep(st, ext) ==
    IF ext.construct.kind = "raise" THEN Raised(st, ext.construct.exc)
    ELSE IF brief_input(st).kind = "raise" THEN Raised(st, brief_input(st).exc)
    ELSE IF ext.run.kind = "raise" THEN Raised(st, ext.run.exc)
    ELSE LET coerced == coerce_briefs_data(ext.run.output) IN
         IF coerced.kind = "raise" THEN Raised(st, coerced.exc)
         ELSE LET briefs_data == coerced.output IN
              IF ~isinstance(briefs_data, "BriefGenerationOutput")
              THEN Raised(st, Exc("ValueError",
                                  "Expected BriefGenerationOutput, got "
                                      \o TypeRepr(briefs_data)))
              ELSE Completed([st EXCEPT
                                 !.briefs = truncate_meta_descriptions(briefs_data),
                                 !.current_step = IF st.error = None
                                                  THEN "brief_generation_done"
                                                  ELSE @])

brief_generation_try(st, ext) ==
    IF ext.construct.kind = "raise" THEN Raised(st, ext.construct.exc)
    ELSE IF brief_input(st).kind = "raise" THEN Raised(st, brief_input(st).exc)
    ELSE IF ext.run.kind = "raise" THEN Raised(st, ext.run.exc)
    ELSE LET coerced == coerce_briefs_data(ext.run.output) IN
         IF coerced.kind = "raise" THEN Raised(st, coerced.exc)
         ELSE LET briefs_data == coerced.output IN
              IF ~isinstance(briefs_data, "BriefGenerationOutput")
              THEN Raised(st, Exc("ValueError",
                                  "Expected BriefGenerationOutput, got "
                                      \o TypeRepr(briefs_data)))
              ELSE Completed([st EXCEPT
                                 !.briefs = truncate_meta_descriptions(briefs_data),
                                 !.current_step = "brief_generation_done"])

\* the handler logs the failure and records nothing
brief_generation_node_SwallowsFailure(st, ext) ==
    LET r == brief_generation_try(st, ext) IN
    IF r.exc = None THEN Return(r.state)
    ELSE IF except_Exception(r.exc) THEN Return(r.state)
         ELSE Raise(r.exc)

\* the handler stores an empty output when the stage fails
brief_generation_node_EmptyOnFailure(st, ext) ==
    LET r == brief_generation_try(st, ext) IN
    IF r.exc = None THEN Return(r.state)
    ELSE IF except_Exception(r.exc)
         THEN Return([r.state EXCEPT
                         !.error = PyStr("Brief Generation Failed: " \o str(r.exc)),
                         !.briefs = BriefGenerationOutput(<<>>, 0, 0)])
         ELSE Raise(r.exc)

brief_generation_node(st, ext) ==
    LET r == brief_generation_try(st, ext) IN
    IF r.exc = None THEN Return(r.state)
    ELSE IF except_Exception(r.exc)
         THEN Return([r.state EXCEPT
                         !.error = PyStr("Brief Generation Failed: " \o str(r.exc))])
         ELSE Raise(r.exc)

(***************************************************************************)
(* The graph: nodes and edges of content_graph_builder                     *)
(***************************************************************************)
Nodes == {"trend_research", "content_strategy", "brief_generation"}

Pipeline == <<"trend_research", "content_strategy", "brief_generation">>

\* trend_research wired straight to brief_generation
EdgeList_SkipsStrategy ==
    {<<"START", "trend_research">>,
     <<"trend_research", "brief_generation">>,
     <<"brief_generation", "END">>}

\* a second edge leaves START, towards content_strategy
EdgeList_FanOut ==
    {<<"START", "trend_research">>,
     <<"START", "content_strategy">>,
     <<"trend_research", "content_strategy">>,
     <<"content_strategy", "brief_generation">>,
     <<"brief_generation", "END">>}

\* the add_edge calls
EdgeList ==
    {<<"START", "trend_research">>,
     <<"trend_research", "content_strategy">>,
     <<"content_strategy", "brief_generation">>,
     <<"brief_generation", "END">>}

\* the node the graph moves to when n has returned
Edge(n) == CHOOSE m \in Nodes \cup {"END"} : <<n, m>> \in EdgeList

NodeTry(n, st, ext) ==
    CASE n = "trend_research" -> trend_research_try(st, ext)
      [] n = "content_strategy" -> content_strategy_try(st, ext)
      [] n = "brief_generation" -> brief_generation_try(st, ext)

Node(n, st, ext) ==
    CASE n = "trend_research" -> trend_research_node(st, ext)
      [] n = "content_strategy" -> content_strategy_node(st, ext)
      [] n = "brief_generation" -> brief_generation_node(st, ext)

NodeInput(n, st) ==
    CASE n = "trend_research" -> research_query(st)
      [] n = "content_strategy" -> strategy_input(st)
      [] n = "brief_generation" -> brief_input(st)

\* the generative call the node performs: its instruction and what came
\* back; None when no agent could be built, NoCall when building the
\* instruction raised
NodeCall(n, st, ext) ==
    IF ext.construct.kind = "raise" THEN None
    ELSE IF NodeInput(n, st).kind = "raise"
         THEN [class |-> "NoCall", exc |-> NodeInput(n, st).exc]
         ELSE [class |-> "call",
               instruction |-> NodeInput(n, st).output,
               outcome |-> ext.run]

(***************************************************************************)
(* What the external collaborators can hand back.  The generative call is  *)
(* untrusted: besides a conforming model it may return an object of        *)
(* another class, a dict, or an instance built without validation, or it   *)
(* may raise (transport failure, validation retries exhausted).            *)
(***************************************************************************)
\* length of an over-long meta description the generative call may produce
LongMetaLength == 200

Agent == [class |-> "Agent"]

\* output_retries=3 of create_brief_generation_agent
BriefOutputRetries == 3

\* the two agents built without output_retries keep the library's default
DefaultOutputRetries == 1

\* how many times the agent of node n re-asks after a response that fails
\* the validation of its output_type
output_retries(n) ==
    CASE n = "brief_generation" -> BriefOutputRetries
      [] n = "trend_research" -> DefaultOutputRetries
      [] n = "content_strategy" -> DefaultOutputRetries

ConstructOutcomes ==
    {Return(Agent), Raise(Exc("UserError", "Unable to build agent"))}

RetriesExhausted ==
    Exc("UnexpectedModelBehavior", "Exceeded maximum retries for result validation")

RunFailures == {Raise(e) : e \in TransportErrors \cup {RetriesExhausted}}

TopicHigh == TrendingTopic("ai agents", 35, 25, 15, 8, 83)

TopicMid == TrendingTopic("llm pricing", 30, 20, 10, 5, 65)

TopicLow == TrendingTopic("generic news", 20, 15, 10, 5, 50)

\* every field within its schema range, the reported composite is not the
\* sum of the breakdown
TopicOverstated == TrendingTopic("hype cycle", 30, 20, 10, 5, 80)

TrendOutputs ==
    {TrendResearchOutput(<<>>, 0, 0, <<>>),
     TrendResearchOutput(<<TopicHigh, TopicMid>>, 5, 2, <<"agents", "pricing">>),
     TrendResearchOutput(<<TopicHigh, TopicLow>>, 2, 1, <<"agents">>),
     TrendResearchOutput(<<TopicOverstated>>, 1, 1, <<"hype">>)}

PieceA == RecommendedContentPiece("ai agents in production", 30, 20, 15, 15, 80)

StrategyOutputs ==
    {ContentStrategyOutput(ContentMix(40, 30, 20, 10), <<PieceA>>, "agents week"),
     ContentStrategyOutput(ContentMix(50, 30, 20, 10), <<>>, "pricing week")}

Brief(i, n) ==
    ContentBrief("brief_" \o ToString(i), "Title " \o ToString(i),
                 SEOOptimization("agents", Repeat("x", n)))

BriefDict(i, n) ==
    Dict([brief_id |-> "brief_" \o ToString(i),
          title |-> "Title " \o ToString(i),
          seo_optimization |-> Dict([primary_keyword |-> "agents",
                                     meta_description |-> Repeat("y", n)])])

BriefOutputs ==
    {BriefGenerationOutput(<<Brief(1, 120)>>, 1, 90),
     BriefGenerationOutput(<<Brief(1, MetaDescriptionLimit),
                             Brief(2, LongMetaLength),
                             Brief(3, 50)>>, 3, 80),
     BriefGenerationOutput(<<Brief(1, MetaDescriptionLimit + 1)>>, 2, 70),
     BriefGenerationOutput(<<Brief(1, 120), Brief(2, 50)>>, 5, 60)}

BriefDicts ==
    {Dict([content_briefs |-> <<BriefDict(1, 100), BriefDict(2, MetaDescriptionLimit)>>,
           total_briefs_generated |-> 2,
           strategy_alignment_score |-> 75]),
     Dict([content_briefs |-> <<BriefDict(1, MetaDescriptionLimit + 1)>>,
           total_briefs_generated |-> 1,
           strategy_alignment_score |-> 75]),
     Dict([content_briefs |-> <<BriefDict(1, 100),
                                BriefDict(2, LongMetaLength),
                                BriefDict(3, 50)>>,
           total_briefs_generated |-> 3,
           strategy_alignment_score |-> 75]),
     Dict([content_briefs |-> <<BriefDict(1, 100)>>,
           total_briefs_generated |-> 1])}

WrongOutputs == {PyStr("free text instead of a model")}

RunOutcomes(n) ==
    CASE n = "trend_research" ->
             {Return(o) : o \in TrendOutputs \cup WrongOutputs} \cup RunFailures
      [] n = "content_strategy" ->
             {Return(o) : o \in StrategyOutputs \cup WrongOutputs} \cup RunFailures
      [] n = "brief_generation" ->
             {Return(o) : o \in BriefOutputs \cup BriefDicts \cup WrongOutputs}
                 \cup RunFailures

Externals(n) ==
    {[construct |-> c, run |-> r] : c \in ConstructOutcomes, r \in RunOutcomes(n)}

(***************************************************************************)
(* The research tools of the trend research agent                          *)
(* (agents/trend_research_agent.py).  Each wrapper awaits its underlying   *)
(* function and turns what comes back into text; u is the outcome of       *)
(* calling the underlying function.                                        *)
(***************************************************************************)
Tools == {"web", "news", "reddit"}

\* most tool calls the agent makes during one run
MaxToolCalls == 2

\* the underlying function is declared "async def"
is_coroutine_function(t) ==
    CASE t = "web" -> TRUE
      [] t = "news" -> FALSE
      [] t = "reddit" -> TRUE

\* a value a tool hands back, with the text str() gives for it
ToolValue(cls, repr) == [class |-> cls, repr |-> repr]

\* str(result)
py_str(v) == v.repr

\* what calling the underlying function gives; fetch_recent_news catches
\* its own exceptions and hands back the empty list
UnderlyingOutcomes(t) ==
    CASE t = "web" ->
             {Return(ToolValue("AgentRunResult", "AgentRunResult(output='agents are trending')"))}
                 \cup {Raise(e) : e \in TransportErrors}
      [] t = "news" ->
             {Return(ToolValue("list", "[{'title': 'LLM prices fall'}]")),
              Return(ToolValue("list", "[]"))}
      [] t = "reddit" ->
             {Return(ToolValue("list", "[{'title': 'agents in production'}]"))}
                 \cup {Raise(e) : e \in TransportErrors}

\* "await f(query)": what f(query) gave is awaited only if f is a coroutine
\* function, otherwise the await itself raises
Await(t, u) ==
    IF u.kind = "raise" THEN u
    ELSE IF is_coroutine_function(t) THEN u
    ELSE Raise(Exc("TypeError",
                   "object " \o u.output.class \o " can't be used in 'await' expression"))

web_search_tool(u) ==
    LET awaited == Await("web", u) IN
    IF awaited.kind = "return" THEN Return(PyStr(py_str(awaited.output)))
    ELSE IF except_Exception(awaited.exc)
         THEN Return(PyStr("Web search failed: " \o str(awaited.exc)))
         ELSE awaited

news_search_tool(u) ==
    LET awaited == Await("news", u) IN
    IF awaited.kind = "return" THEN Return(PyStr(py_str(awaited.output)))
    ELSE IF except_Exception(awaited.exc)
         THEN Return(PyStr("News search failed: " \o str(awaited.exc)))
         ELSE awaited

reddit_search_tool(u) ==
    LET awaited == Await("reddit", u) IN
    IF awaited.kind = "return" THEN Return(PyStr(py_str(awaited.output)))
    ELSE IF except_Exception(awaited.exc)
         THEN Return(PyStr("Reddit search failed: " \o str(awaited.exc)))
         ELSE awaited

ToolWrapper(t, u) ==
    CASE t = "web" -> web_search_tool(u)
      [] t = "news" -> news_search_tool(u)
      [] t = "reddit" -> reddit_search_tool(u)

(***************************************************************************)
(* Persistence (routes/agent_routes.py, save_workflow_results).  The       *)
(* database is the rows already committed plus the rows added to the       *)
(* session and not committed yet.  fail_at names the statement of the      *)
(* function that raises, "none" when none does.                            *)
(***************************************************************************)
EmptyDatabase == [committed |-> <<>>, pending |-> <<>>]

db_add(database, rows) == [database EXCEPT !.pending = @ \o rows]

db_commit(database) ==
    [committed |-> database.committed \o database.pending, pending |-> <<>>]

db_rollback(database) == [database EXCEPT !.pending = <<>>]

SavePoints ==
    {"none", "run_commit", "topics", "strategy_commit", "pieces", "briefs",
     "final_commit"}

SaveError == Exc("SQLAlchemyError", "database operation failed")

\* the summary counts the topics the answer reports as qualifying
WorkflowRun_CountsQualifying(company_id, final_state) ==
    [table |-> "workflow_runs",
     company_id |-> company_id,
     workflow_id |-> "workflow_" \o uuid_str(company_id),
     status |-> IF ~Truthy(final_state.error) THEN "completed" ELSE "failed",
     trends_found |-> IF Truthy(final_state.trends)
                      THEN final_state.trends.total_topics_qualifying ELSE 0,
     strategy_created |-> Truthy(final_state.strategy),
     briefs_generated |-> IF Truthy(final_state.briefs)
                          THEN final_state.briefs.total_briefs_generated ELSE 0,
     error_message |-> final_state.error]

\* the status is taken from the step label
WorkflowRun_StatusByStep(company_id, final_state) ==
    [table |-> "workflow_runs",
     company_id |-> company_id,
     workflow_id |-> "workflow_" \o uuid_str(company_id),
     status |-> IF final_state.current_step = "brief_generation_done"
                THEN "completed" ELSE "failed",
     trends_found |-> IF Truthy(final_state.trends)
                      THEN Len(final_state.trends.trending_topics) ELSE 0,
     strategy_created |-> Truthy(final_state.strategy),
     briefs_generated |-> IF Truthy(final_state.briefs)
                          THEN final_state.briefs.total_briefs_generated ELSE 0,
     error_message |-> final_state.error]

WorkflowRun(company_id, final_state) ==
    [table |-> "workflow_runs",
     company_id |-> company_id,
     workflow_id |-> "workflow_" \o uuid_str(company_id),
     status |-> IF ~Truthy(final_state.error) THEN "completed" ELSE "failed",
     trends_found |-> IF Truthy(final_state.trends)
                      THEN Len(final_state.trends.trending_topics) ELSE 0,
     strategy_created |-> Truthy(final_state.strategy),
     briefs_generated |-> IF Truthy(final_state.briefs)
                          THEN final_state.briefs.total_briefs_generated ELSE 0,
     error_message |-> final_state.error]

TopicRows(final_state) ==
    IF Truthy(final_state.trends)
    THEN [i \in DOMAIN final_state.trends.trending_topics |->
             [table |-> "trending_topics",
              topic |-> final_state.trends.trending_topics[i].topic,
              trend_score |-> final_state.trends.trending_topics[i].trend_score]]
    ELSE <<>>

StrategyRow(final_state) ==
    [table |-> "content_strategies", weekly_focus |-> final_state.strategy.weekly_focus]

PieceRows(final_state) ==
    [i \in DOMAIN final_state.strategy.recommended_content_pieces |->
        [table |-> "content_pieces",
         topic |-> final_state.strategy.recommended_content_pieces[i].topic]]

BriefRows(final_state) ==
    IF Truthy(final_state.briefs)
    THEN [i \in DOMAIN final_state.briefs.content_briefs |->
             [table |-> "content_briefs",
              brief_id |-> final_state.briefs.content_briefs[i].brief_id,
              title |-> final_state.briefs.content_briefs[i].title]]
    ELSE <<>>

\* the handler: roll the session back and re-raise
save_failed(database) == [db |-> db_rollback(database), outcome |-> Raise(SaveError)]

\* lines 97-194: recommended pieces, briefs, final commit
save_rest(database, run, final_state, fail_at) ==
    LET pieces == IF Truthy(final_state.strategy)
                  THEN PieceRows(final_state) ELSE <<>>
        d1 == db_add(database, pieces)
        d2 == db_add(d1, BriefRows(final_state))
    IN  IF fail_at = "pieces" /\ pieces # <<>> THEN save_failed(database)
        ELSE IF fail_at = "briefs" /\ BriefRows(final_state) # <<>> THEN save_failed(d1)
        ELSE IF fail_at = "final_commit" THEN save_failed(d2)
        ELSE [db |-> db_commit(d2), outcome |-> Return(run)]

save_workflow_results(database, company_id, final_state, fail_at) ==
    LET run == WorkflowRun(company_id, final_state)
        d0 == db_add(database, <<run>>)
        d1 == db_commit(d0)
        d2 == db_add(d1, TopicRows(final_state))
        d3 == db_add(d2, <<StrategyRow(final_state)>>)
    IN  IF fail_at = "run_commit" THEN save_failed(d0)
        ELSE IF fail_at = "topics" /\ TopicRows(final_state) # <<>> THEN save_failed(d1)
        ELSE IF ~Truthy(final_state.strategy)
             THEN save_rest(d2, run, final_state, fail_at)
        ELSE IF fail_at = "strategy_commit" THEN save_failed(d3)
        ELSE save_rest(db_commit(d3), run, final_state, fail_at)

(***************************************************************************)
(* The run: run_content_workflow builds the initial state and hands it to  *)
(* content_graph.ainvoke, which walks the edges.                           *)
(*   pc       the graph's position: START, a node, END (RAISED when a      *)
(*            node's exception reached the graph)                          *)
(*   running  the node at pc has been entered and is suspended in its      *)
(*            external calls                                               *)
(*   invoked  history: the nodes entered so far, in order                  *)
(*   result   history: how each node's try block ended                     *)
(*   failures history: the failing nodes with their exceptions, in order   *)
(*   executing the nodes entered and not yet returned                      *)
(*   calls    history: the generative call each node performed             *)
(*   retries  how often the running agent re-asked after an invalid answer *)
(*   tool_log the tool calls of the running trend research agent           *)
(*   db, workflow_run, response  the route: database, saved run, answer    *)
(*   run2, alone  the second request, and each request replayed alone      *)
(***************************************************************************)
InitialState(profile) ==
    [company_id |-> uuid_str(profile.company_id),
     profile |-> profile,
     trends |-> None,
     strategy |-> None,
     briefs |-> None,
     error |-> None,
     current_step |-> "start"]

\* the route has not reached its save block yet
NotSaved == [class |-> "NotSaved"]

\* the save block was left by its handler: workflow_run is not in locals()
Unbound == [class |-> "Unbound"]

HTTPException(status_code, detail) ==
    [class |-> "HTTPException", status_code |-> status_code, detail |-> detail]

\* workflow_run is read without the locals() guard: after a failed save the
\* NameError reaches the route's outer handler
SuccessResponse_NeedsSavedRun(final_state, run) ==
    IF run = Unbound
    THEN HTTPException(500, PyStr("Workflow execution failed: "
                                  \o "name 'workflow_run' is not defined"))
    ELSE [class |-> "dict",
          status |-> "success",
          company_id |-> final_state.company_id,
          current_step |-> final_state.current_step,
          workflow_id |-> PyStr(run.workflow_id),
          results |-> [trends_found |-> IF Truthy(final_state.trends)
                                        THEN Len(final_state.trends.trending_topics)
                                        ELSE 0,
                       strategy_created |-> Truthy(final_state.strategy),
                       briefs_generated |-> IF Truthy(final_state.briefs)
                                            THEN final_state.briefs.total_briefs_generated
                                            ELSE 0],
          data |-> [trends |-> final_state.trends,
                    strategy |-> final_state.strategy,
                    briefs |-> final_state.briefs]]

\* lines 242-257: the body of the success response
SuccessResponse(final_state, run) ==
    [class |-> "dict",
     status |-> "success",
     company_id |-> final_state.company_id,
     current_step |-> final_state.current_step,
     workflow_id |-> IF run = Unbound THEN None ELSE PyStr(run.workflow_id),
     results |-> [trends_found |-> IF Truthy(final_state.trends)
                                   THEN Len(final_state.trends.trending_topics)
                                   ELSE 0,
                  strategy_created |-> Truthy(final_state.strategy),
                  briefs_generated |-> IF Truthy(final_state.briefs)
                                       THEN final_state.briefs.total_briefs_generated
                                       ELSE 0],
     data |-> [trends |-> final_state.trends,
               strategy |-> final_state.strategy,
               briefs |-> final_state.briefs]]

\* the requests served side by side
Requests == {1, 2}

\* the state dict of request r is the one every request writes to
NewStateObject_Shared(r) == 1

\* the identity of the dict the literal of lines 215-223 builds for
\* request r: a new object for every request
NewStateObject(r) == r

\* no second request is in flight
NoRun == [class |-> "NoneType"]

Init ==
    /\ state \in {InitialState(p) : p \in Profiles}
    /\ pc = "START"
    /\ running = FALSE
    /\ invoked = <<>>
    /\ result = [n \in Nodes |-> "pending"]
    /\ failures = <<>>
    /\ executing = {}
    /\ calls = [n \in Nodes |-> None]
    /\ retries = [n \in Nodes |-> 0]
    /\ tool_log = <<>>
    /\ db = EmptyDatabase
    /\ workflow_run = NotSaved
    /\ response = None
    /\ arg = None
    /\ ret = <<>>
    /\ run2 = NoRun
    /\ alone = [r \in Requests |-> IF r = 1 THEN state ELSE None]

\* ainvoke follows the edge out of START
ainvoke ==
    /\ pc = "START"
    /\ pc' = Edge("START")
    /\ UNCHANGED <<state, running, invoked, result, failures, executing, calls>>
    /\ UNCHANGED <<agentVars, routeVars, fnVars, concVars>>

\* m has run to its end (START: the graph was invoked)
Finished(m) ==
    IF m = "START" THEN pc # "START" ELSE result[m] # "pending"

\* an edge into n leaves a finished node and n was not entered yet
Triggered(n) ==
    /\ pc # "RAISED"
    /\ \A i \in DOMAIN invoked : invoked[i] # n
    /\ \E m \in Nodes \cup {"START"} : <<m, n>> \in EdgeList /\ Finished(m)

\* the graph calls a triggered node, which runs up to its external calls
NodeEnter(n) ==
    /\ Triggered(n)
    /\ executing' = executing \cup {n}
    /\ running' = TRUE
    /\ invoked' = Append(invoked, n)
    /\ retries' = [retries EXCEPT ![n] = 0]
    /\ UNCHANGED <<state, pc, result, failures, calls>>
    /\ UNCHANGED <<tool_log, routeVars, fnVars, concVars>>

\* inside agent.run: a response failed the validation of the output_type
\* and the agent asks again, while its retry budget lasts
ModelRetry(n) ==
    /\ n \in executing
    /\ retries[n] < output_retries(n)
    /\ retries' = [retries EXCEPT ![n] = retries[n] + 1]
    /\ UNCHANGED <<graphVars, tool_log, routeVars, fnVars, concVars>>

\* inside agent.run of trend research: the model asks for a tool and gets
\* the wrapper's text back
ToolCall(t) ==
    /\ "trend_research" \in executing
    /\ Len(tool_log) < MaxToolCalls
    /\ \E u \in UnderlyingOutcomes(t) :
          tool_log' = Append(tool_log, [tool |-> t,
                                        underlying |-> u,
                                        returned |-> ToolWrapper(t, u)])
    /\ UNCHANGED <<graphVars, retries, routeVars, fnVars, concVars>>

\* the external calls come back, the node runs to its return statement and
\* the graph follows the node's outgoing edge.  agent.run gives up on
\* validation only when the retry budget is used up; no retry happened
\* when no agent could be built.
NodeReturn(n) ==
    /\ n \in executing
    /\ \E ext \in Externals(n) :
          LET body == NodeTry(n, state, ext)
              r == Node(n, state, ext)
          IN  /\ ext.run = Raise(RetriesExhausted) => retries[n] = output_retries(n)
              /\ ext.construct.kind = "raise" => retries[n] = 0
              /\ IF r.kind = "return"
                 THEN state' = r.output /\ pc' = Edge(n)
                 ELSE state' = state /\ pc' = "RAISED"
              /\ result' = [result EXCEPT
                               ![n] = IF body.exc = None THEN "ok" ELSE "failed"]
              /\ failures' = IF body.exc = None THEN failures
                             ELSE Append(failures, [stage |-> n, exc |-> body.exc])
              /\ calls' = [calls EXCEPT ![n] = NodeCall(n, state, ext)]
              /\ alone' = [alone EXCEPT
                              ![1] = IF Node(n, alone[1], ext).kind = "return"
                                     THEN Node(n, alone[1], ext).output
                                     ELSE alone[1]]
    /\ executing' = executing \ {n}
    /\ running' = (executing' # {})
    /\ retries' = [retries EXCEPT ![n] = 0]
    /\ tool_log' = <<>>
    /\ UNCHANGED invoked
    /\ UNCHANGED <<routeVars, fnVars, run2>>

\* lines 229-235: the graph has ended and the route saves the final state;
\* an exception of the save is swallowed
SaveResults ==
    /\ pc = "END"
    /\ workflow_run = NotSaved
    /\ \E fail_at \in SavePoints :
          LET r == save_workflow_results(db, state.profile.company_id, state, fail_at)
          IN  /\ db' = r.db
              /\ workflow_run' = IF r.outcome.kind = "return"
                                 THEN r.outcome.output ELSE Unbound
    /\ UNCHANGED <<graphVars, agentVars, response, fnVars, concVars>>

\* lines 238-263: the route answers the caller
Respond ==
    /\ response = None
    /\ \/ /\ pc = "END"
          /\ workflow_run # NotSaved
          /\ response' = IF Truthy(state.error)
                         THEN HTTPException(500, state.error)
                         ELSE SuccessResponse(state, workflow_run)
       \/ /\ pc = "RAISED"
          /\ response' = HTTPException(500,
                             PyStr("Workflow execution failed: "
                                   \o str(failures[Len(failures)].exc)))
    /\ UNCHANGED <<graphVars, agentVars, db, workflow_run, fnVars, concVars>>

Next ==
    \/ ainvoke
    \/ \E n \in Nodes : NodeEnter(n)
    \/ \E n \in Nodes : ModelRetry(n)
    \/ \E t \in Tools : ToolCall(t)
    \/ \E n \in Nodes : NodeReturn(n)
    \/ SaveResults
    \/ Respond

Spec == Init /\ [][Next]_vars

(***************************************************************************)
(* truncate_meta_descriptions applied on its own to outputs of every       *)
(* shape: arg is the output handed in, ret the results of applying the     *)
(* function to it and then to its own result.                              *)
(***************************************************************************)
\* how often the function is applied in a row
MaxApplications == 2

\* most briefs in an output handed to the function
MaxBriefs == 2

\* length of a far over-long meta description
VeryLongMetaLength == 500

\* a text of n characters that differ along the text
Text(n) == SubSeq(Repeat("abcdefghij", n \div 10 + 1), 1, n)

MetaLengths ==
    {0, 1, TruncatedPrefixLength, MetaDescriptionLimit - 1, MetaDescriptionLimit,
     MetaDescriptionLimit + 1, LongMetaLength, VeryLongMetaLength}

\* the seo_optimization values of the sample briefs; None as
\* model_construct can leave it
SampleSEO ==
    {SEOOptimization("agents", Text(n)) : n \in MetaLengths} \cup {None}

SampleBriefLists ==
    UNION {[1..k -> SampleSEO] : k \in 0..MaxBriefs}

TruncateInputs ==
    {BriefGenerationOutput(
         [i \in DOMAIN seos |->
             ContentBrief("brief_" \o ToString(i), "Title " \o ToString(i), seos[i])],
         Len(seos), 80) : seos \in SampleBriefLists}

TruncInit ==
    /\ state = InitialState(CompanyProfile(1))
    /\ pc = "START"
    /\ running = FALSE
    /\ invoked = <<>>
    /\ result = [n \in Nodes |-> "pending"]
    /\ failures = <<>>
    /\ executing = {}
    /\ calls = [n \in Nodes |-> None]
    /\ retries = [n \in Nodes |-> 0]
    /\ tool_log = <<>>
    /\ db = EmptyDatabase
    /\ workflow_run = NotSaved
    /\ response = None
    /\ arg \in TruncateInputs
    /\ ret = <<>>
    /\ run2 = NoRun
    /\ alone = [r \in Requests |-> IF r = 1 THEN state ELSE None]

\* the function is applied to arg, then to its own result
ApplyTruncate ==
    /\ Len(ret) < MaxApplications
    /\ ret' = Append(ret, truncate_meta_descriptions(
                              IF ret = <<>> THEN arg ELSE ret[Len(ret)]))
    /\ UNCHANGED <<graphVars, agentVars, routeVars, arg, concVars>>

TruncNext == ApplyTruncate

TruncSpec == TruncInit /\ [][TruncNext]_vars

(***************************************************************************)
(* Two requests served side by side on the one event loop.  Request 1 is   *)
(* the run above; request 2, for another company, arrives at any moment    *)
(* and walks the same graph: run2 holds its position and its state dict.   *)
(* A state dict is reached through its identity: when both requests hold   *)
(* the same object, request 2 reads and writes the dict of request 1.      *)
(***************************************************************************)
\* the outcomes of the external calls of request 2: one output accepted by
\* the stage and one transport failure
Externals2(n) ==
    {[construct |-> Return(Agent), run |-> r] :
        r \in {Return(CHOOSE o \in (CASE n = "trend_research" -> TrendOutputs
                                      [] n = "content_strategy" -> StrategyOutputs
                                      [] n = "brief_generation" -> BriefOutputs) :
                           o.class # "str"),
               Raise(CHOOSE e \in TransportErrors : TRUE)}}

\* the dict request 2 holds
Deref2 == IF NewStateObject(2) = NewStateObject(1) THEN state ELSE run2.state

ConcInit ==
    /\ state = InitialState(CompanyProfile(1))
    /\ pc = "START"
    /\ running = FALSE
    /\ invoked = <<>>
    /\ result = [n \in Nodes |-> "pending"]
    /\ failures = <<>>
    /\ executing = {}
    /\ calls = [n \in Nodes |-> None]
    /\ retries = [n \in Nodes |-> 0]
    /\ tool_log = <<>>
    /\ db = EmptyDatabase
    /\ workflow_run = NotSaved
    /\ response = None
    /\ arg = None
    /\ ret = <<>>
    /\ run2 = NoRun
    /\ alone = [r \in Requests |-> IF r = 1 THEN state ELSE None]

\* the route builds the state of request 2 and invokes the graph with it
Request2 ==
    /\ run2 = NoRun
    /\ LET initial == InitialState(CompanyProfile(2)) IN
       /\ run2' = [class |-> "run",
                   state |-> initial,
                   pc |-> Edge("START"),
                   executing |-> FALSE,
                   overlapped |-> FALSE]
       /\ state' = IF NewStateObject(2) = NewStateObject(1) THEN initial ELSE state
       /\ alone' = [alone EXCEPT ![2] = initial]
    /\ UNCHANGED <<pc, running, invoked, result, failures, executing, calls>>
    /\ UNCHANGED <<agentVars, routeVars, fnVars>>

\* request 2 enters its next node
Node2Enter(n) ==
    /\ run2 # NoRun
    /\ run2.pc = n
    /\ ~run2.executing
    /\ run2' = [run2 EXCEPT !.executing = TRUE,
                            !.overlapped = @ \/ executing # {}]
    /\ UNCHANGED <<graphVars, agentVars, routeVars, fnVars, alone>>

\* the node of request 2 returns and its graph follows the edge
Node2Return(n) ==
    /\ run2 # NoRun
    /\ run2.pc = n
    /\ run2.executing
    /\ \E ext \in Externals2(n) :
          LET r == Node(n, Deref2, ext)
              written == IF r.kind = "return" THEN r.output ELSE Deref2
          IN  /\ run2' = [run2 EXCEPT
                             !.state = IF NewStateObject(2) = NewStateObject(1)
                                       THEN @ ELSE written,
                             !.pc = IF r.kind = "return" THEN Edge(n) ELSE "RAISED",
                             !.executing = FALSE]
              /\ state' = IF NewStateObject(2) = NewStateObject(1)
                          THEN written ELSE state
              /\ alone' = [alone EXCEPT
                              ![2] = IF Node(n, alone[2], ext).kind = "return"
                                     THEN Node(n, alone[2], ext).output
                                     ELSE alone[2]]
    /\ UNCHANGED <<pc, running, invoked, result, failures, executing, calls>>
    /\ UNCHANGED <<agentVars, routeVars, fnVars>>

ConcNext ==
    \/ ainvoke
    \/ \E n \in Nodes : NodeEnter(n)
    \/ \E n \in Nodes : NodeReturn(n)
    \/ Request2
    \/ \E n \in Nodes : Node2Enter(n)
    \/ \E n \in Nodes : Node2Return(n)

ConcSpec == ConcInit /\ [][ConcNext]_vars

(***************************************************************************)
(* trend_research_node run repeatedly on the same profile with the         *)
(* generative call stubbed: arg is the stubbed outcome of the external     *)
(* calls, ret the states the executions returned.  Between entry and       *)
(* return each execution makes its own tool calls and retries.             *)
(***************************************************************************)
\* how often the stage is executed on the same input
MaxExecutions == 2

DetInit ==
    /\ state \in {InitialState(p) : p \in Profiles}
    /\ pc = "START"
    /\ running = FALSE
    /\ invoked = <<>>
    /\ result = [n \in Nodes |-> "pending"]
    /\ failures = <<>>
    /\ executing = {}
    /\ calls = [n \in Nodes |-> None]
    /\ retries = [n \in Nodes |-> 0]
    /\ tool_log = <<>>
    /\ db = EmptyDatabase
    /\ workflow_run = NotSaved
    /\ response = None
    /\ arg \in Externals("trend_research")
    /\ ret = <<>>
    /\ run2 = NoRun
    /\ alone = [r \in Requests |-> IF r = 1 THEN state ELSE None]

\* an execution of the stage starts on the initial state
StubEnter ==
    /\ executing = {}
    /\ Len(ret) < MaxExecutions
    /\ executing' = {"trend_research"}
    /\ UNCHANGED <<state, pc, running, invoked, result, failures, calls>>
    /\ UNCHANGED <<agentVars, routeVars, fnVars, concVars>>

\* the stubbed calls come back and the execution returns its state
StubReturn ==
    /\ executing = {"trend_research"}
    /\ arg.run = Raise(RetriesExhausted) =>
           retries["trend_research"] = output_retries("trend_research")
    /\ arg.construct.kind = "raise" => retries["trend_research"] = 0
    /\ Node("trend_research", state, arg).kind = "return"
    /\ ret' = Append(ret, Node("trend_research", state, arg).output)
    /\ executing' = {}
    /\ retries' = [retries EXCEPT !["trend_research"] = 0]
    /\ tool_log' = <<>>
    /\ UNCHANGED <<state, pc, running, invoked, result, failures, calls>>
    /\ UNCHANGED <<routeVars, arg, concVars>>

DetNext ==
    \/ StubEnter
    \/ ModelRetry("trend_research")
    \/ \E t \in Tools : ToolCall(t)
    \/ StubReturn

DetSpec == DetInit /\ [][DetNext]_vars

TypeOK ==
    /\ pc \in {"START", "END", "RAISED"} \cup Nodes
    /\ running \in BOOLEAN
    /\ state.current_step \in {"start", "trend_research_done",
                               "content_strategy_done", "brief_generation_done"}
    /\ executing \subseteq Nodes
    /\ \A n \in Nodes : retries[n] \in 0..output_retries(n)
    /\ Len(tool_log) <= MaxToolCalls
    /\ db.pending = <<>>
    /\ workflow_run \in {NotSaved, Unbound}
           \/ workflow_run = WorkflowRun(state.profile.company_id, state)
    /\ Len(ret) <= MaxApplications

(***************************************************************************)
(* Vocabulary of the properties                                            *)
(***************************************************************************)
StageLabel(n) ==
    CASE n = "trend_research" -> "Trend Research"
      [] n = "content_strategy" -> "Content Strategy"
      [] n = "brief_generation" -> "Brief Generation"

DoneLabel(n) ==
    CASE n = "trend_research" -> "trend_research_done"
      [] n = "content_strategy" -> "content_strategy_done"
      [] n = "brief_generation" -> "brief_generation_done"

OutputField(n) ==
    CASE n = "trend_research" -> "trends"
      [] n = "content_strategy" -> "strategy"
      [] n = "brief_generation" -> "briefs"

OutputFields == {"trends", "strategy", "briefs"}

Rank(step) ==
    CASE step = "start" -> 0
      [] step = "trend_research_done" -> 1
      [] step = "content_strategy_done" -> 2
      [] step = "brief_generation_done" -> 3
      [] OTHER -> -1

\* the message a failing stage is to record for its exception
FailureMessage(f) == StageLabel(f.stage) \o " Failed: " \o str(f.exc)

\* the text t occurs in the text s
Contains(s, t) ==
    \E i \in 1..(Len(s) - Len(t) + 1) : SubSeq(s, i, i + Len(t) - 1) = t

\* the done label of the latest stage of the pipeline that succeeded so far
LastSuccessLabel ==
    IF result["brief_generation"] = "ok" THEN DoneLabel("brief_generation")
    ELSE IF result["content_strategy"] = "ok" THEN DoneLabel("content_strategy")
    ELSE IF result["trend_research"] = "ok" THEN DoneLabel("trend_research")
    ELSE "start"

\* the node at pc returns in this step
Returns(n) == n \in executing /\ n \notin executing'

(***************************************************************************)
(* Properties                                                              *)
(***************************************************************************)

\* C1: every run enters the three nodes once each in the order
\* trend_research, content_strategy, brief_generation and then stops: the
\* nodes entered so far are always a prefix of the pipeline, a node that
\* returned is followed by the next one whatever it recorded, at END all
\* three were entered and returned, and no node can be entered again.
C1_StagesOnceInOrder ==
    /\ Len(invoked) <= Len(Pipeline)
    /\ invoked = SubSeq(Pipeline, 1, Len(invoked))
    /\ \A i \in 1..Len(Pipeline) :
          (pc = Pipeline[i] /\ ~running) =>
              /\ Len(invoked) = i - 1
              /\ ENABLED NodeEnter(Pipeline[i])
    /\ pc = "END" =>
          /\ invoked = Pipeline
          /\ \A n \in Nodes : result[n] # "pending"
          /\ \A n \in Nodes : ~ENABLED NodeEnter(n) /\ ~ENABLED NodeReturn(n)

C1_Witness ==
    /\ pc = "END"
    /\ invoked = Pipeline
    /\ result["trend_research"] = "failed"
    /\ result["content_strategy"] = "failed"

\* C2: the first failure wins: whenever some stage has failed, error holds
\* the message of the earliest failing stage.
C2_FirstFailureWins ==
    failures # <<>> => state.error = PyStr(FailureMessage(failures[1]))

\* C3: once error is non-null it stays non-null in every later state of the
\* run.
C3_ErrorNeverCleared ==
    [][state.error # None => state'.error # None]_vars

C3_Witness ==
    /\ pc = "END"
    /\ result["trend_research"] = "failed"
    /\ result["content_strategy"] = "ok"
    /\ result["brief_generation"] = "ok"
    /\ state.error # None

\* C4: current_step never moves to an earlier label, and a stage that fails
\* leaves current_step as it was before the stage ran.
C4_StepMonotone ==
    [][/\ Rank(state'.current_step) >= Rank(state.current_step)
       /\ Rank(state.current_step) >= 0
       /\ \A n \in Nodes :
             (Returns(n) /\ result'[n] = "failed") =>
                 state'.current_step = state.current_step]_vars

C4_Witness ==
    /\ result["trend_research"] = "ok"
    /\ result["content_strategy"] = "failed"
    /\ state.current_step = "trend_research_done"

\* C5 (as stated): from the moment error is non-null, current_step no longer
\* changes.
C5_LabelFrozenAfterError ==
    [][state.error # None => state'.current_step = state.current_step]_vars

\* C5 (amended): while error is non-null, current_step is the done label of
\* the most recent stage that completed successfully, whether that stage ran
\* before or after the failure ("start" when none did); a failing stage
\* never moves the label, a later successful stage still advances it.
C5_LabelIsLastSuccess ==
    state.error # None => state.current_step = LastSuccessLabel

C5_Witness ==
    /\ state.error # None
    /\ result["trend_research"] = "failed"
    /\ result["brief_generation"] = "ok"
    /\ state.current_step = "brief_generation_done"

\* C6: the output fields are populated left to right (trends while strategy
\* and briefs are null, strategy while briefs is null), and a field that is
\* non-null is never reset or replaced.
C6_OutputsLeftToRightAndStable ==
    [][/\ \A f \in OutputFields : state[f] # None => state'[f] = state[f]
       /\ state'.trends # state.trends =>
              state.strategy = None /\ state.briefs = None
       /\ state'.strategy # state.strategy => state.briefs = None]_vars

C6_Witness ==
    /\ pc = "END"
    /\ state.trends # None
    /\ state.strategy # None
    /\ state.briefs # None

\* C7 (as stated): once error is non-null, no later stage writes a new value
\* into trends, strategy or briefs.
C7_NoOutputAfterError ==
    [][state.error # None =>
          \A f \in OutputFields : state'[f] = state[f]]_vars

\* C7 (amended): once error is non-null, an output field changes only when
\* a later stage succeeds and writes its own, until then null, output
\* field; a field that is already set keeps its value, and a later stage
\* that fails writes no output field.
C7_OnlyOwnNullFieldAfterError ==
    [][state.error # None =>
          \A f \in OutputFields :
             state'[f] # state[f] =>
                 /\ state[f] = None
                 /\ \E n \in Nodes :
                       Returns(n) /\ OutputField(n) = f /\ result'[n] = "ok"]_vars

C7_Witness ==
    /\ state.error # None
    /\ result["trend_research"] = "failed"
    /\ result["content_strategy"] = "ok"
    /\ state.strategy # None
    /\ state.trends = None

\* C8: no exception of a stage reaches the graph: whatever the agent
\* construction, the generative call, the type check and the dict coercion
\* do, the node returns a state and the graph moves on from it.
C8_NoExceptionEscapes ==
    /\ pc # "RAISED"
    /\ \A i \in DOMAIN failures : pc # failures[i].stage

C8_Witness ==
    /\ pc = "END"
    /\ \E i \in DOMAIN failures : failures[i].exc.class = "UserError"
    /\ \E i \in DOMAIN failures : failures[i].exc.class = "ModelHTTPError"
    /\ \E i \in DOMAIN failures :
          /\ failures[i].exc.class = "ValueError"
          /\ Contains(failures[i].exc.msg, "Failed to parse briefs_data dict")

\* C9: a failing stage changes nothing but error, which it sets to
\* "<its stage name> Failed: <cause>".
C9_FailureOnlySetsError ==
    [][\A n \in Nodes :
          (Returns(n) /\ result'[n] = "failed") =>
              /\ failures' # <<>>
              /\ failures'[Len(failures')].stage = n
              /\ state' = [state EXCEPT
                              !.error = PyStr(FailureMessage(failures'[Len(failures')]))]]_vars

C9_Witness ==
    /\ result["trend_research"] = "ok"
    /\ result["content_strategy"] = "ok"
    /\ result["brief_generation"] = "failed"
    /\ state.current_step = "content_strategy_done"
    /\ state.briefs = None
    /\ state.error # None

\* C10: when trend research failed, the final state has trends unset and an
\* error that mentions "Trend Research", and content strategy was executed.
C10_TrendFailureReported ==
    (pc = "END" /\ result["trend_research"] = "failed") =>
        /\ state.trends = None
        /\ state.error # None
        /\ Contains(state.error.value, "Trend Research")
        /\ \E i \in DOMAIN invoked : invoked[i] = "content_strategy"

\* the upstream output stage n reads is missing
MissingUpstream(n) ==
    CASE n = "content_strategy" ->
             state.trends = None \/ state.trends.trending_topics = <<>>
      [] n = "brief_generation" -> state.strategy = None \/ state.trends = None
      [] OTHER -> FALSE

\* the placeholders the instruction of stage n carries for what is missing
Placeholders(n) ==
    CASE n = "content_strategy" -> {"No specific trends found"}
      [] n = "brief_generation" ->
             (IF state.strategy = None
              THEN {"General content strategy", "General content topics"}
              ELSE {})
             \cup (IF state.trends = None THEN {"General industry keywords"} ELSE {})
      [] OTHER -> {}

\* what came back from the generative call of stage n is usable as the
\* stage's output
AcceptedOutcome(n, outcome) ==
    /\ outcome.kind = "return"
    /\ CASE n = "trend_research" -> isinstance(outcome.output, "TrendResearchOutput")
         [] n = "content_strategy" -> isinstance(outcome.output, "ContentStrategyOutput")
         [] n = "brief_generation" ->
                \/ isinstance(outcome.output, "BriefGenerationOutput")
                \/ /\ isinstance(outcome.output, "dict")
                   /\ ValidBriefGenerationOutput(outcome.output.items)

\* C11: a missing upstream output never by itself makes a stage fail.  When
\* content_strategy has returned with trends null or without topics, or
\* brief_generation with strategy or trends null, then (unless no agent
\* could be built) the generative call was performed, its instruction
\* carried the placeholder text for what is missing, and the stage
\* succeeded exactly when what came back from the call was usable.
C11_MissingUpstreamDegrades ==
    \A n \in {"content_strategy", "brief_generation"} :
        (MissingUpstream(n) /\ result[n] # "pending") =>
            \/ /\ calls[n] = None
               /\ \E i \in DOMAIN failures :
                     /\ failures[i].stage = n
                     /\ Raise(failures[i].exc) \in ConstructOutcomes
            \/ /\ calls[n] # None
               /\ calls[n].class = "call"
               /\ \A t \in Placeholders(n) : Contains(calls[n].instruction, t)
               /\ (result[n] = "ok") <=> AcceptedOutcome(n, calls[n].outcome)

\* both later stages succeeded although trend research recorded nothing
C11_Witness ==
    /\ pc = "END"
    /\ state.trends = None
    /\ result["content_strategy"] = "ok"
    /\ state.strategy # None
    /\ result["brief_generation"] = "ok"
    /\ Contains(calls["content_strategy"].instruction, "No specific trends found")
    /\ Contains(calls["brief_generation"].instruction, "General industry keywords")

\* C12: in each of the three stages a response that fails schema
\* validation is retried up to the same fixed budget of 3: whenever a
\* stage returns because its generative call gave up on validation, the
\* call had retried BriefOutputRetries times.
C12_SameRetryBudgetInEveryStage ==
    [][\A n \in Nodes :
          (/\ Returns(n)
           /\ calls'[n] # None
           /\ calls'[n].class = "call"
           /\ calls'[n].outcome = Raise(RetriesExhausted))
          => retries[n] = BriefOutputRetries]_vars

\* C13: truncate_meta_descriptions, for every brief and every input
\* length: a meta_description longer than 160 characters becomes its first
\* 157 characters followed by "..." (160 characters), one of 160
\* characters or fewer is unchanged, so every result is at most 160 long;
\* nothing else of the output or of any brief changes, and applying the
\* function to its own result changes nothing.
C13_TruncateContract ==
    \A k \in DOMAIN ret :
        LET in == IF k = 1 THEN arg ELSE ret[k - 1]
            out == ret[k]
        IN  /\ out.class = in.class
            /\ out.total_briefs_generated = in.total_briefs_generated
            /\ out.strategy_alignment_score = in.strategy_alignment_score
            /\ Len(out.content_briefs) = Len(in.content_briefs)
            /\ \A i \in DOMAIN in.content_briefs :
                  LET b == in.content_briefs[i]
                      c == out.content_briefs[i]
                  IN  /\ c.class = b.class
                      /\ c.brief_id = b.brief_id
                      /\ c.title = b.title
                      /\ IF b.seo_optimization = None
                         THEN c.seo_optimization = None
                         ELSE LET m == b.seo_optimization.meta_description
                                  t == c.seo_optimization.meta_description
                              IN  /\ c.seo_optimization.class = b.seo_optimization.class
                                  /\ c.seo_optimization.primary_keyword
                                         = b.seo_optimization.primary_keyword
                                  /\ Len(m) > 160 =>
                                         /\ t = SubSeq(m, 1, 157) \o "..."
                                         /\ Len(t) = 160
                                  /\ Len(m) <= 160 => t = m
                                  /\ Len(t) <= 160
            /\ k > 1 => out = in

\* the function was applied twice to an output holding a description of
\* 161 characters and one of exactly 160
C13_Witness ==
    /\ arg # None
    /\ Len(ret) = 2
    /\ Len(arg.content_briefs) = 2
    /\ arg.content_briefs[1].seo_optimization # None
    /\ arg.content_briefs[2].seo_optimization # None
    /\ Len(arg.content_briefs[1].seo_optimization.meta_description) = 161
    /\ Len(arg.content_briefs[2].seo_optimization.meta_description) = 160
    /\ ret[1].content_briefs[1].seo_optimization.meta_description
           # arg.content_briefs[1].seo_optimization.meta_description
    /\ ret[1].content_briefs[2] = arg.content_briefs[2]

\* the briefs of what the generative call handed back, model or dict
ReturnedBriefs(o) ==
    IF o.class = "dict" THEN o.items.content_briefs ELSE o.content_briefs

\* the meta description of a returned brief, model or dict
ReturnedMeta(b) ==
    IF b.class = "dict"
    THEN b.items.seo_optimization.items.meta_description
    ELSE b.seo_optimization.meta_description

\* the brief generation call handed back 3 briefs, one of them with a
\* meta description of LongMetaLength characters
ThreeBriefsOneLong ==
    /\ calls["brief_generation"] # None
    /\ calls["brief_generation"].class = "call"
    /\ calls["brief_generation"].outcome.kind = "return"
    /\ LET o == calls["brief_generation"].outcome.output IN
       /\ o.class \in {"dict", "BriefGenerationOutput"}
       /\ Len(ReturnedBriefs(o)) = 3
       /\ \E i \in 1..3 : Len(ReturnedMeta(ReturnedBriefs(o)[i])) = LongMetaLength

\* C14: with trend research and content strategy succeeding, when the
\* brief generation call returns 3 briefs of which one has an over-long
\* meta description, the run ends with current_step brief_generation_done,
\* error null, exactly 3 briefs and every meta description at most 160
\* long, the over-long one cut to 160 characters ending in "...".
C14_LongMetaRepairedNotRejected ==
    (/\ pc = "END"
     /\ result["trend_research"] = "ok"
     /\ result["content_strategy"] = "ok"
     /\ ThreeBriefsOneLong)
    => /\ state.current_step = "brief_generation_done"
       /\ state.error = None
       /\ state.briefs # None
       /\ Len(state.briefs.content_briefs) = 3
       /\ \A i \in 1..3 :
             Len(state.briefs.content_briefs[i].seo_optimization.meta_description)
                 <= 160
       /\ \E i \in 1..3 :
             LET t == state.briefs.content_briefs[i].seo_optimization.meta_description
             IN  Len(t) = 160 /\ SubSeq(t, 158, 160) = "..."

\* the run records persisted so far
PersistedRuns ==
    {db.committed[i] : i \in {j \in DOMAIN db.committed :
                                 db.committed[j].table = "workflow_runs"}}

\* C15: a run is reported failed exactly when error is non-null in the
\* final state, whatever current_step and the output fields are: every
\* run record persisted has status "failed" when error is non-null and
\* "completed" when it is null, and the caller gets an HTTP 500 when error
\* is non-null and the success response when it is null.
C15_FailedIffErrorSet ==
    /\ \A r \in PersistedRuns :
          /\ r.status = (IF state.error # None THEN "failed" ELSE "completed")
          /\ r.error_message = state.error
    /\ response # None =>
          IF state.error # None
          THEN response.class = "HTTPException" /\ response.status_code = 500
          ELSE response.class = "dict" /\ response.status = "success"

\* a run that failed in its first stage and still reached
\* brief_generation_done is persisted as failed and answered with HTTP 500
C15_Witness ==
    /\ state.error # None
    /\ state.current_step = "brief_generation_done"
    /\ state.briefs # None
    /\ \E r \in PersistedRuns : r.status = "failed"
    /\ response # None
    /\ response.class = "HTTPException"

\* C16: when a run ends with error non-null, the caller receives both the
\* outputs of the stages that did complete and the message of the first
\* failure of the run.
C16_CallerGetsPartialResultsAndFirstError ==
    (response # None /\ pc = "END" /\ state.error # None) =>
        /\ "detail" \in DOMAIN response
        /\ response.detail = PyStr(FailureMessage(failures[1]))
        /\ "data" \in DOMAIN response
        /\ response.data = [trends |-> state.trends,
                            strategy |-> state.strategy,
                            briefs |-> state.briefs]

\* C17: within a run no two stages execute at the same time, and a stage
\* is entered only after every stage entered before it has returned its
\* state, completed or failed, however long the stages stay suspended in
\* their external calls.
C17_StagesNeverOverlap ==
    /\ Cardinality(executing) <= 1
    /\ running = (executing # {})
    /\ \A i \in DOMAIN invoked :
          \A j \in 1..(i - 1) :
              /\ invoked[j] \notin executing
              /\ result[invoked[j]] # "pending"
    /\ \A n \in Nodes : ENABLED NodeEnter(n) => executing = {}

\* brief_generation is suspended in a retry of its generative call after
\* one earlier stage failed and one completed
C17_Witness ==
    /\ executing = {"brief_generation"}
    /\ retries["brief_generation"] > 0
    /\ result["trend_research"] = "failed"
    /\ result["content_strategy"] = "ok"

\* C19: no stage ever modifies the company profile or company_id: no step
\* of a run, whether a stage succeeds or fails in it, changes profile or
\* company_id, so in every state they are what the caller put in the
\* initial state.
C19_ProfileNeverModified ==
    [][/\ state'.profile = state.profile
       /\ state'.company_id = state.company_id
       /\ state'.profile \in Profiles
       /\ state'.company_id = uuid_str(state'.profile.company_id)]_vars

\* a run has ended with one stage failed and two completed, its profile
\* still one the caller can have sent
C19_Witness ==
    /\ pc = "END"
    /\ result["trend_research"] = "ok"
    /\ result["content_strategy"] = "failed"
    /\ result["brief_generation"] = "ok"
    /\ state.profile \in Profiles
    /\ state.company_id = uuid_str(state.profile.company_id)

\* the name a wrapper's diagnostic text starts with
ToolLabel(t) ==
    CASE t = "web" -> "Web"
      [] t = "news" -> "News"
      [] t = "reddit" -> "Reddit"

\* C20: each research tool wrapper returns a string for every call and
\* never raises: the text of the result when its underlying tool
\* succeeded, and a diagnostic text naming the tool when it raised.
C20_ToolWrappersReportFaithfully ==
    \A i \in DOMAIN tool_log :
        LET c == tool_log[i] IN
        /\ c.returned.kind = "return"
        /\ c.returned.output.class = "str"
        /\ IF c.underlying.kind = "return"
           THEN c.returned.output = PyStr(py_str(c.underlying.output))
           ELSE c.returned.output =
                    PyStr(ToolLabel(c.tool) \o " search failed: " \o str(c.underlying.exc))

SubScoreSum(t) ==
    t.business_relevance_score + t.audience_interest_score
        + t.content_opportunity_score + t.trend_momentum_score

\* C21: for every topic the trend research stage stores in
\* state.trends.trending_topics the four sub-scores sum to the reported
\* trend_score, and trend_score lies in 0..100.
C21_SubScoresSumToComposite ==
    state.trends # None =>
        \A i \in DOMAIN state.trends.trending_topics :
            LET t == state.trends.trending_topics[i] IN
            /\ t.trend_score \in 0..100
            /\ SubScoreSum(t) = t.trend_score

\* the composite score a topic needs to qualify
QualifyingScore == 60

\* the topic rows persisted so far
PersistedTopics ==
    {db.committed[i] : i \in {j \in DOMAIN db.committed :
                                 db.committed[j].table = "trending_topics"}}

\* C22: only topics whose composite score is at least 60 are admitted
\* into downstream stages: every topic in state.trends.trending_topics,
\* which content_strategy reads, and every topic persisted has
\* trend_score >= 60.
C22_OnlyQualifyingTopicsDownstream ==
    /\ state.trends # None =>
          \A i \in DOMAIN state.trends.trending_topics :
              state.trends.trending_topics[i].trend_score >= QualifyingScore
    /\ \A r \in PersistedTopics : r.trend_score >= QualifyingScore

\* the content mix of a strategy output has every percentage within
\* 0..100 and a total other than 100
OffTotalMix(o) ==
    /\ isinstance(o, "ContentStrategyOutput")
    /\ ValidContentMix(o.content_strategy.content_mix)
    /\ ~validate_total(o.content_strategy.content_mix)

\* C23: a ContentStrategyOutput whose four content-mix percentages each
\* lie in 0..100 but do not sum to 100 is accepted as it is: when the
\* content strategy call hands it back, the stage returns with strategy
\* set to it, current_step content_strategy_done and error untouched, the
\* stage counts as succeeded and the answer is not asked for again.
C23_OffTotalMixAccepted ==
    [][(/\ Returns("content_strategy")
        /\ calls'["content_strategy"] # None
        /\ calls'["content_strategy"].class = "call"
        /\ calls'["content_strategy"].outcome.kind = "return"
        /\ OffTotalMix(calls'["content_strategy"].outcome.output))
       => /\ state'.strategy = calls'["content_strategy"].outcome.output
          /\ state'.current_step = "content_strategy_done"
          /\ state'.error = state.error
          /\ result'["content_strategy"] = "ok"
          /\ failures' = failures
          /\ "content_strategy" \notin executing']_vars

\* a run ended without error with a stored content mix that totals 110
C23_Witness ==
    /\ pc = "END"
    /\ state.error = None
    /\ state.strategy # None
    /\ OffTotalMix(state.strategy)
    /\ state.current_step = "brief_generation_done"
    /\ result["content_strategy"] = "ok"

\* the brief rows persisted so far
PersistedBriefs ==
    {db.committed[i] : i \in {j \in DOMAIN db.committed :
                                 db.committed[j].table = "content_briefs"}}

\* C24: after every successful brief generation stage
\* briefs.total_briefs_generated is the number of entries in
\* briefs.content_briefs, so the briefs_generated count persisted for a
\* saved run and reported to the caller is the number of brief records.
C24_BriefCountMatchesEntries ==
    /\ result["brief_generation"] = "ok" =>
          state.briefs.total_briefs_generated = Len(state.briefs.content_briefs)
    /\ (workflow_run \notin {NotSaved, Unbound}) =>
          workflow_run.briefs_generated = Cardinality(PersistedBriefs)
    /\ (response # None /\ response.class = "dict") =>
          response.results.briefs_generated = Len(response.data.briefs.content_briefs)

C26_TerminalStateSuccessOrError ==
    pc = "END" =>
        /\ (state.error = None) <=> (\A n \in Nodes : result[n] = "ok")
        /\ state.error = None =>
              /\ state.current_step = "brief_generation_done"
              /\ \A f \in OutputFields : state[f] # None

\* a run ended with all three stages succeeded and no error
C26_Witness ==
    /\ pc = "END"
    /\ \A n \in Nodes : result[n] = "ok"
    /\ state.error = None
    /\ state.current_step = "brief_generation_done"
    /\ state.briefs # None

\* C27: in every reachable state of a run started with all outputs null
\* and current_step "start", a stage's output field is non-null exactly
\* when that stage has run and succeeded, and current_step is the done
\* label of the most recent stage that succeeded ("start" if none has), so
\* current_step = X_done implies that the output field of stage X is
\* non-null.
C27_OutputsAndLabelTrackSuccess ==
    /\ \A n \in Nodes : (state[OutputField(n)] # None) <=> (result[n] = "ok")
    /\ state.current_step = LastSuccessLabel
    /\ \A n \in Nodes :
          state.current_step = DoneLabel(n) => state[OutputField(n)] # None

\* after a failed first stage the second succeeded and the third is
\* executing: only strategy is set and the label is content_strategy_done
C27_Witness ==
    /\ result["trend_research"] = "failed"
    /\ result["content_strategy"] = "ok"
    /\ "brief_generation" \in executing
    /\ state.trends = None
    /\ state.strategy # None
    /\ state.briefs = None
    /\ state.current_step = "content_strategy_done"

C29_SaveFailureKeepsOutcome ==
    (response # None /\ workflow_run = Unbound) =>
        IF state.error # None
        THEN response = HTTPException(500, state.error)
        ELSE /\ response.class = "dict"
             /\ response.status = "success"
             /\ response.company_id = state.company_id
             /\ response.current_step = state.current_step
             /\ response.workflow_id = None
             /\ response.results.trends_found = Len(state.trends.trending_topics)
             /\ response.results.strategy_created
             /\ response.results.briefs_generated = state.briefs.total_briefs_generated
             /\ response.data = [trends |-> state.trends,
                                 strategy |-> state.strategy,
                                 briefs |-> state.briefs]

\* a run without error whose save raised after the run record was
\* committed is answered with the success response without workflow_id
C29_Witness ==
    /\ workflow_run = Unbound
    /\ PersistedRuns # {}
    /\ state.error = None
    /\ response # None
    /\ response.class = "dict"
    /\ response.workflow_id = None
    /\ response.results.briefs_generated > 0

\* the rows of table t persisted so far, in the order they were added
PersistedRows(t) ==
    LET RECURSIVE Pick(_)
        Pick(i) ==
            IF i > Len(db.committed) THEN <<>>
            ELSE IF db.committed[i].table = t
                 THEN <<db.committed[i]>> \o Pick(i + 1)
                 ELSE Pick(i + 1)
    IN  Pick(1)

\* C30: save_workflow_results is all-or-nothing: when it raised, at
\* whatever point, none of the run's records is persisted, and when it
\* returned, the run record and every topic, the strategy, every
\* recommended piece and every brief of the final state are persisted.
C30_SaveAllOrNothing ==
    /\ workflow_run = Unbound => db.committed = <<>>
    /\ (workflow_run \notin {NotSaved, Unbound}) =>
          /\ PersistedRows("workflow_runs") = <<workflow_run>>
          /\ PersistedRows("trending_topics") = TopicRows(state)
          /\ PersistedRows("content_strategies")
                 = (IF state.strategy = None THEN <<>> ELSE <<StrategyRow(state)>>)
          /\ PersistedRows("content_pieces")
                 = (IF state.strategy = None THEN <<>> ELSE PieceRows(state))
          /\ PersistedRows("content_briefs") = BriefRows(state)

====
